---- MODULE Spec2Model ----
(***************************************************************************)
(* Model of the main window of watermark-gui (src/watermark/gui/app.py):   *)
(* MainWindow (construction, OK button state, optimization gate, batch     *)
(* run) and DroppableQList (the de-duplicated, sorted file queue).         *)
(*                                                                         *)
(* Everything runs on the single Qt GUI thread.  A handler runs to its end *)
(* without interleaving, except at QCoreApplication.processEvents() inside *)
(* the batch loop, where the pending events (drops, edits, settings, OK    *)
(* clicks) are dispatched from within _process_all.  The running           *)
(* _process_all calls are therefore a stack of frames.                     *)
(*                                                                         *)
(* Paths are numbers: 0 is the empty string "", 1 and 2 are two file names *)
(* ("a.jpg", "b.png"); the numeric order is the list widget's sort order.  *)
(***************************************************************************)
EXTENDS Integers, Sequences, FiniteSets, TLC

\* ------------------------------------------------------------------ bounds
\* Cap of stats["count"]: a batch starts only if it can finish under the cap.
MaxCount == 2

\* The files the user can drop.
FileNames == {1, 2}
\* The sizes, in bytes, a file can have.
Sizes == {1, 2}
\* The contents of the text field and of the picture-path field.
Texts == {"", "sample"}
Pictures == {"", "logo.png"}
\* The API keys the settings can hold.
Keys == {"invalid-key", "valid-key"}

\* Python's None, and a value that is not None.
None == <<>>
Some(v) == <<v>>

VARIABLES
    phase,              \* "new" before __init__, "ready" after it, "crashed" if it raised
    CONF,               \* the global settings object (its optimize and tinify_key fields)
    text,               \* self.text (QLineEdit) content
    picture,            \* self.picture (QLineEdit) content
    paths_list,         \* self.paths_list: the items of the DroppableQList, in display order
    buttons,            \* self.buttons.isEnabled()
    stats,              \* self.stats
    _use_optimization,  \* cached gate value, None before the first check
    _old_key,           \* key remembered at the last check
    _old_state,         \* optimize toggle remembered at the last check
    status_bar,         \* self.status_bar: whether the attribute exists, and its message
    stack,              \* the _process_all calls in progress, innermost last
    handed,             \* history: queued paths passed to apply_watermarks since they were queued
    validations,        \* history: validate_key calls since the settings last changed (capped at 2)
    ev                  \* history: what the last step did

vars == <<phase, CONF, text, picture, paths_list, buttons, stats, _use_optimization,
          _old_key, _old_state, status_bar, stack, handed, validations, ev>>

\* ------------------------------------------------------------ collaborators
\* optimizer.validate_key: whether the tinify API accepts the key.
validate_key(key) == key = "valid-key"

\* The URLs a drop can carry: local file URLs and URLs of another scheme.
Urls ==
    {[scheme |-> "file", path |-> p] : p \in FileNames}
        \cup {[scheme |-> "https", path |-> 1]}

\* QUrl.toLocalFile(): the path of a local file URL, "" for any other URL.
toLocalFile(url) == IF url.scheme = "file" THEN url.path ELSE 0

\* event.mimeData().urls(): a drop carries no, one or two URLs.
UrlLists == {<<>>} \cup {<<u>> : u \in Urls} \cup {<<u, v>> : u \in Urls, v \in Urls}

Range(s) == {s[k] : k \in 1..Len(s)}

Min(a, b) == IF a < b THEN a ELSE b

\* ------------------------------------------------------------- history record
\* op: the handler that ran.  values, recomputed, calls: the values the
\* evaluations of use_optimization returned in the step, how many of them
\* recomputed the gate and how many validate_key calls they made.  raised: the
\* update check raised.  orig, new, opt: the file sizes of a ProcessFile step.
\* dup: the drop event carried URLs, all of paths that were already queued.
\* files, count0, done: the number of files of a finished batch, the count at
\* its start and the number of its files that were watermarked.
NoEv ==
    [op |-> "none", values |-> {}, recomputed |-> 0, calls |-> 0, raised |-> FALSE,
     orig |-> 0, new |-> 0, opt |-> 0, dup |-> FALSE, files |-> 0, count0 |-> 0,
     done |-> 0]

\* ---------------------------------------------------------- pure functions
\* MainWindow.use_optimization: the gate's value, the cache it leaves, whether
\* it recomputed and the number of validate_key calls it made.  Python's
\* `CONF.optimize and validate_key(...)` calls validate_key only when
\* CONF.optimize is true.
\* A gate that validates the key before it looks at the toggle.
use_optimization_eager(use, key, state, conf) ==
    IF use = None \/ Some(conf.tinify_key) # key \/ Some(conf.optimize) # state
    THEN [value |-> validate_key(conf.tinify_key) /\ conf.optimize,
          use   |-> Some(validate_key(conf.tinify_key) /\ conf.optimize),
          key   |-> Some(conf.tinify_key),
          state |-> Some(conf.optimize),
          recomputed |-> 1,
          calls |-> 1]
    ELSE [value |-> use[1], use |-> use, key |-> key, state |-> state,
          recomputed |-> 0, calls |-> 0]

\* A gate that does not remember the key it checked.
use_optimization_forgetful(use, key, state, conf) ==
    IF use = None \/ Some(conf.tinify_key) # key \/ Some(conf.optimize) # state
    THEN [value |-> conf.optimize /\ validate_key(conf.tinify_key),
          use   |-> Some(conf.optimize /\ validate_key(conf.tinify_key)),
          key   |-> key,
          state |-> Some(conf.optimize),
          recomputed |-> 1,
          calls |-> IF conf.optimize THEN 1 ELSE 0]
    ELSE [value |-> use[1], use |-> use, key |-> key, state |-> state,
          recomputed |-> 0, calls |-> 0]

use_optimization(use, key, state, conf) ==
    IF use = None \/ Some(conf.tinify_key) # key \/ Some(conf.optimize) # state
    THEN [value |-> conf.optimize /\ validate_key(conf.tinify_key),
          use   |-> Some(conf.optimize /\ validate_key(conf.tinify_key)),
          key   |-> Some(conf.tinify_key),
          state |-> Some(conf.optimize),
          recomputed |-> 1,
          calls |-> IF conf.optimize THEN 1 ELSE 0]
    ELSE [value |-> use[1], use |-> use, key |-> key, state |-> state,
          recomputed |-> 0, calls |-> 0]

\* What button_ok_state() passes to self.buttons.setEnabled().
button_ok_state(t, p, list) == (t # "" \/ p # "") /\ Len(list) > 0

\* A membership test that looks at the first item only.
exists_first(list, path) == Len(list) > 0 /\ list[1] = path

\* DroppableQList.exists
exists(list, path) == \E k \in 1..Len(list) : list[k] = path

\* QListWidget.addItem with sorting enabled: the item goes to its sorted place.
addItem(list, path) ==
    LET n == Cardinality({k \in 1..Len(list) : list[k] <= path})
    IN  SubSeq(list, 1, n) \o <<path>> \o SubSeq(list, n + 1, Len(list))

\* The loop of dropEvent over the event's URLs.
RECURSIVE dropUrls(_, _)
dropUrls(list, urls) ==
    IF urls = <<>> THEN list
    ELSE LET path == toLocalFile(Head(urls))
         IN  dropUrls(IF exists(list, path) THEN list ELSE addItem(list, path),
                      Tail(urls))

\* A clear() that leaves the items dropped after the first one.
clear_first(list) == IF list = <<>> THEN list ELSE Tail(list)

\* QListWidget.clear()
clear(list) == <<>>

\* The default message of _status_msg(): the count and the size won (the tinify
\* suffix, an external counter, is left out).
StatisticsMsg(s) == <<"STATISTICS", s.count, s.size_before - s.size_after>>

\* The statistics after one watermarked file: orig is the size of path_orig,
\* final the size of path_new when the statistics are updated.
UpdateStats(s, orig, final) ==
    [count |-> s.count + 1,
     size_before |-> s.size_before + orig,
     size_after |-> s.size_after + final]

\* ------------------------------------------------------------------- state
Init ==
    /\ phase = "new"
    /\ CONF \in [optimize : BOOLEAN, tinify_key : Keys]
    /\ text = ""
    /\ picture = ""
    /\ paths_list = <<>>
    /\ buttons = FALSE
    /\ stats = [count |-> 0, size_before |-> 0, size_after |-> 0]
    /\ _use_optimization = None
    /\ _old_key = None
    /\ _old_state = None
    /\ status_bar = [created |-> FALSE, message |-> <<>>]
    /\ stack = <<>>
    /\ handed = {}
    /\ validations = 0
    /\ ev = NoEv

Top == stack[Len(stack)]

\* The event loop is dispatching: app.exec_() is idle, or the innermost batch
\* is inside processEvents().
Dispatching ==
    /\ phase = "ready"
    /\ IF stack = <<>> THEN TRUE ELSE Top.pc = "pump"

\* MainWindow.__init__.  update is CONF.update, windows is constants.WINDOWS,
\* raises is whether Updater.check raises; conf_text and conf_picture are the
\* persisted CONF.text and CONF.picture the two fields start with.  On a failed
\* update check _status_msg(msg) reads self.status_bar, which _status_bar() has
\* not created yet: the AttributeError leaves __init__.
Construct ==
    /\ phase = "new"
    /\ \E update \in BOOLEAN, windows \in BOOLEAN, raises \in BOOLEAN,
          conf_text \in Texts, conf_picture \in Pictures :
        LET failed == update /\ windows /\ raises
            uo == use_optimization(_use_optimization, _old_key, _old_state, CONF)
        IN  IF failed /\ ~status_bar.created
            THEN /\ phase' = "crashed"
                 /\ ev' = [NoEv EXCEPT !.op = "__init__", !.raised = TRUE]
                 /\ UNCHANGED <<CONF, text, picture, paths_list, buttons, stats,
                                _use_optimization, _old_key, _old_state, status_bar,
                                stack, handed, validations>>
            ELSE /\ phase' = "ready"
                 /\ status_bar' = [created |-> TRUE,
                                   message |-> StatisticsMsg(stats)]
                 /\ _use_optimization' = uo.use
                 /\ _old_key' = uo.key
                 /\ _old_state' = uo.state
                 /\ validations' = Min(2, validations + uo.calls)
                 /\ text' = conf_text
                 /\ picture' = conf_picture
                 /\ paths_list' = <<>>
                 /\ buttons' = button_ok_state(conf_text, conf_picture, <<>>)
                 /\ ev' = [NoEv EXCEPT !.op = "__init__", !.raised = failed,
                                       !.values = {uo.value},
                                       !.recomputed = uo.recomputed,
                                       !.calls = uo.calls]
                 /\ UNCHANGED <<CONF, stats, stack, handed>>

\* DroppableQList.dropEvent (mimeData().hasUrls is a bound method, always true).
dropEvent ==
    /\ Dispatching
    /\ \E urls \in UrlLists :
        /\ paths_list' = dropUrls(paths_list, urls)
        /\ buttons' = button_ok_state(text, picture, paths_list')
        /\ ev' = [NoEv EXCEPT !.op = "dropEvent",
                              !.dup = /\ urls # <<>>
                                      /\ \A u \in Range(urls) :
                                            toLocalFile(u) \in Range(paths_list)]
    /\ UNCHANGED <<phase, CONF, text, picture, stats, _use_optimization, _old_key,
                   _old_state, status_bar, stack, handed, validations>>

\* The user edits the text field: no slot is connected to it.
textEdited ==
    /\ Dispatching
    /\ \E t \in Texts \ {text} : text' = t
    /\ ev' = NoEv
    /\ UNCHANGED <<phase, CONF, picture, paths_list, buttons, stats, _use_optimization,
                   _old_key, _old_state, status_bar, stack, handed, validations>>

\* The user edits the picture-path field: no slot is connected to it.
pictureEdited ==
    /\ Dispatching
    /\ \E p \in Pictures \ {picture} : picture' = p
    /\ ev' = NoEv
    /\ UNCHANGED <<phase, CONF, text, paths_list, buttons, stats, _use_optimization,
                   _old_key, _old_state, status_bar, stack, handed, validations>>

\* MainWindow._select_one_file: path is what the file dialog returns ("" when
\* cancelled).  CONF.picture = path is a write to the persisted settings.
_select_one_file ==
    /\ Dispatching
    /\ \E path \in Pictures :
        picture' = IF path # "" THEN path ELSE picture
    /\ ev' = NoEv
    /\ UNCHANGED <<phase, CONF, text, paths_list, buttons, stats, _use_optimization,
                   _old_key, _old_state, status_bar, stack, handed, validations>>

\* The settings dialog (Settings.exec_) changes the optimize toggle or the key.
settings_exec ==
    /\ Dispatching
    /\ \E o \in BOOLEAN, k \in Keys :
        /\ <<o, k>> # <<CONF.optimize, CONF.tinify_key>>
        /\ CONF' = [CONF EXCEPT !.optimize = o, !.tinify_key = k]
    /\ validations' = 0
    /\ ev' = NoEv
    /\ UNCHANGED <<phase, text, picture, paths_list, buttons, stats, _use_optimization,
                   _old_key, _old_state, status_bar, stack, handed>>

\* Files the batches in progress have still to go through.
RECURSIVE Remaining(_)
Remaining(st) ==
    IF st = <<>> THEN 0
    ELSE Len(Head(st).paths) - Head(st).i
            + (IF Head(st).pc = "loop" THEN 1 ELSE 0) + Remaining(Tail(st))

\* MainWindow._process_all up to the loop: a click on the enabled OK button.
\* CONF.text and CONF.picture take the two fields' contents and, unless the
\* queue is empty, the generator apply_watermarks(paths, CONF.text,
\* CONF.picture) is created with the snapshot of the queue.
_process_all ==
    /\ Dispatching
    /\ buttons
    /\ stats.count + Remaining(stack) + Len(paths_list) <= MaxCount
    /\ IF paths_list = <<>>
       THEN /\ ev' = [NoEv EXCEPT !.op = "_process_all"]
            /\ UNCHANGED <<stack, handed>>
       ELSE /\ stack' = Append(stack,
                   [paths |-> paths_list, i |-> 1, pc |-> "loop",
                    count0 |-> stats.count, done |-> 0])
            /\ handed' = handed \cup Range(paths_list)
            /\ ev' = [NoEv EXCEPT !.op = "apply_watermarks"]
    /\ UNCHANGED <<phase, CONF, text, picture, paths_list, buttons, stats,
                   _use_optimization, _old_key, _old_state, status_bar, validations>>

InLoop ==
    /\ phase = "ready"
    /\ stack # <<>>
    /\ Top.pc = "loop"

\* One iteration for which apply_watermarks yields (path_orig, None): continue.
SkipFile ==
    /\ InLoop
    /\ Top.i <= Len(Top.paths)
    /\ stack' = [stack EXCEPT ![Len(stack)].i = @ + 1]
    /\ ev' = [NoEv EXCEPT !.op = "SkipFile"]
    /\ UNCHANGED <<phase, CONF, text, picture, paths_list, buttons, stats,
                   _use_optimization, _old_key, _old_state, status_bar, handed,
                   validations>>

\* One iteration for which apply_watermarks yields (path_orig, path_new), up to
\* the call of processEvents().  orig and new are the sizes of the two files,
\* opt the size of the file optimize() returns (0 when it is not called or
\* returns None), all drawn from sizes.
ProcessFileOf(sizes) ==
    /\ InLoop
    /\ Top.i <= Len(Top.paths)
    /\ \E orig \in sizes, new \in sizes, opt \in {0} \cup sizes :
        LET uo == use_optimization(_use_optimization, _old_key, _old_state, CONF)
            final == IF uo.value /\ opt # 0 THEN opt ELSE new
            uo2 == use_optimization(uo.use, uo.key, uo.state, CONF)
        IN  /\ uo.value \/ opt = 0
            /\ stats' = UpdateStats(stats, orig, final)
            /\ _use_optimization' = uo2.use
            /\ _old_key' = uo2.key
            /\ _old_state' = uo2.state
            /\ validations' = Min(2, validations + uo.calls + uo2.calls)
            /\ status_bar' = [created |-> TRUE,
                              message |-> StatisticsMsg(stats')]
            /\ ev' = [NoEv EXCEPT !.op = "ProcessFile",
                                  !.values = {uo.value, uo2.value},
                                  !.recomputed = uo.recomputed + uo2.recomputed,
                                  !.calls = uo.calls + uo2.calls,
                                  !.orig = orig, !.new = new, !.opt = opt]
    /\ stack' = [stack EXCEPT ![Len(stack)].pc = "pump",
                              ![Len(stack)].done = @ + 1]
    /\ UNCHANGED <<phase, CONF, text, picture, paths_list, buttons, handed>>

\* The iteration with files of any size.
ProcessFile == ProcessFileOf(Sizes)

\* The iteration with files of one byte each.
ProcessUnitFile == ProcessFileOf({1})

\* processEvents() returns and the loop goes to the next file.
processEventsReturn ==
    /\ phase = "ready"
    /\ stack # <<>>
    /\ Top.pc = "pump"
    /\ stack' = [stack EXCEPT ![Len(stack)].pc = "loop", ![Len(stack)].i = @ + 1]
    /\ ev' = NoEv
    /\ UNCHANGED <<phase, CONF, text, picture, paths_list, buttons, stats,
                   _use_optimization, _old_key, _old_state, status_bar, handed,
                   validations>>

\* The end of _process_all: the generator is exhausted, the queue is cleared
\* and the OK button state recomputed.
FinishBatch ==
    /\ InLoop
    /\ Top.i > Len(Top.paths)
    /\ paths_list' = clear(paths_list)
    /\ handed' = handed \cap Range(paths_list')
    /\ buttons' = button_ok_state(text, picture, paths_list')
    /\ stack' = SubSeq(stack, 1, Len(stack) - 1)
    /\ ev' = [NoEv EXCEPT !.op = "FinishBatch", !.files = Len(Top.paths),
                          !.count0 = Top.count0, !.done = Top.done]
    /\ UNCHANGED <<phase, CONF, text, picture, stats, _use_optimization, _old_key,
                   _old_state, status_bar, validations>>

\* The window with every event of the user; the files are one byte each, so
\* that the statistics are a function of the count.
Next ==
    \/ Construct
    \/ dropEvent
    \/ textEdited
    \/ pictureEdited
    \/ _select_one_file
    \/ settings_exec
    \/ _process_all
    \/ SkipFile
    \/ ProcessUnitFile
    \/ processEventsReturn
    \/ FinishBatch

Spec == Init /\ [][Next]_vars

\* The batch runs with files of any size: drops and OK clicks (also inside
\* processEvents()), with the fields and the settings as they were at startup.
NextStats ==
    \/ Construct
    \/ dropEvent
    \/ _process_all
    \/ SkipFile
    \/ ProcessFile
    \/ processEventsReturn
    \/ FinishBatch

SpecStats == Init /\ [][NextStats]_vars

\* ------------------------------------------------------------------ claims
\* C1: in every state of the constructed window the OK button is enabled iff
\* (the text or the picture path is non-empty) and the file queue is non-empty.
C1_ButtonTracksInputs ==
    phase = "ready" =>
        (buttons <=> ((text # "" \/ picture # "") /\ Len(paths_list) > 0))

\* C2: once a batch run is over (its loop is exhausted, or it returned at
\* once for want of files) the file queue is empty, whatever was skipped.
C2_QueueEmptyAfterBatch ==
    ev.op \in {"FinishBatch", "_process_all"} => Len(paths_list) = 0

\* A batch of two files, both skipped, is over.
C2_Witness ==
    /\ ev.op = "FinishBatch"
    /\ ev.files = 2
    /\ ev.done = 0
    /\ paths_list = <<>>

\* A step changes the statistics only when the watermarking collaborator
\* returned a new path, and then adds 1 to count, the original's size to
\* size_before and the final output's size (the optimized file's when
\* optimize() returned one, the watermarked file's otherwise) to size_after.
StatsChangePerFile ==
    [][IF ev'.op = "ProcessFile"
       THEN /\ stats'.count = stats.count + 1
            /\ stats'.size_before = stats.size_before + ev'.orig
            /\ stats'.size_after =
                 stats.size_after + (IF ev'.opt # 0 THEN ev'.opt ELSE ev'.new)
       ELSE stats' = stats]_vars

\* C3: the statistics change only for the files the watermarking collaborator
\* returned a new path for, each adding 1 to count, the original's size to
\* size_before and the final output's size to size_after; and when a batch
\* run is over, count has grown by exactly the number of its files that were
\* not skipped.
C3_StatsPerFile ==
    /\ StatsChangePerFile
    /\ [](ev.op = "FinishBatch" => stats.count = ev.count0 + ev.done)

\* No two items of the list are the same path.
NoDuplicates(list) ==
    \A i \in 1..Len(list), j \in 1..Len(list) : i # j => list[i] # list[j]

\* C4: the file queue never holds a path twice, and a drop that carries only
\* paths that are already queued leaves the queue as it was.
C4_NoDuplicatePaths ==
    /\ [](NoDuplicates(paths_list))
    /\ [][(ev'.op = "dropEvent" /\ ev'.dup) => paths_list' = paths_list]_vars

\* A drop of paths that were all queued already, onto a queue of two.
C4_Witness ==
    /\ ev.op = "dropEvent"
    /\ ev.dup
    /\ Len(paths_list) = 2

\* C5: when the update check raises during construction, construction still
\* completes: the window is ready and its status bar exists.
C5_UpdateFailureNotFatal ==
    (ev.op = "__init__" /\ ev.raised) => (phase = "ready" /\ status_bar.created)

\* C6: while the optimize toggle is off, an evaluation of use_optimization
\* makes no validate_key call and returns false.
C6_GateShortCircuit ==
    (ev.values # {} /\ ~CONF.optimize) => (ev.calls = 0 /\ ev.values = {FALSE})

\* The gate was recomputed for a file with the toggle off and a valid key.
C6_Witness ==
    /\ ev.op = "ProcessFile"
    /\ ~CONF.optimize
    /\ CONF.tinify_key = "valid-key"
    /\ ev.recomputed = 1
    /\ ev.values = {FALSE}

\* C7: the gate is recomputed only when the toggle or the key differs from the
\* remembered values; validate_key is called at most once between two changes
\* of the settings; the value returned is the remembered toggle AND the
\* validity of the remembered key.
C7_GateCached ==
    /\ [](validations <= 1)
    /\ [](ev.values # {} =>
            \E k \in Keys, o \in BOOLEAN :
                /\ _old_key = Some(k)
                /\ _old_state = Some(o)
                /\ ev.values = {o /\ validate_key(k)})
    /\ [][ev'.recomputed > 0 =>
            (Some(CONF.tinify_key) # _old_key \/ Some(CONF.optimize) # _old_state)]_vars
    /\ [](ev.recomputed <= 1)

\* The second file of a batch is optimized on the cached gate value: the one
\* validate_key call since the settings changed was made before.
C7_Witness ==
    /\ ev.op = "ProcessFile"
    /\ Top.i = 2
    /\ ev.recomputed = 0
    /\ ev.calls = 0
    /\ validations = 1
    /\ ev.values = {TRUE}

\* C8: apply_watermarks is called with a non-empty text or picture path and a
\* non-empty list of paths (the call's arguments are the two fields and the
\* snapshot of the queue).
C8_ValidRequest ==
    ev.op = "apply_watermarks" =>
        ((text # "" \/ picture # "") /\ Len(Top.paths) > 0)

\* C9: a path leaves the file queue only after it was passed to
\* apply_watermarks.
C9_NoQueuedFileLost ==
    [][\A p \in Range(paths_list) \ Range(paths_list') : p \in handed]_vars

\* C10: at most one batch run is in progress.
C10_BatchesDoNotNest == Len(stack) <= 1

====
